---- MODULE Spec2Model ----
(***************************************************************************)
(* Model of captoolkit/tide: extract_netcdf_constants (read_netcdf_model)  *)
(* and predict_tide_drift.                                                 *)
(*                                                                         *)
(* Numbers.  The code computes in floating point; the model computes the   *)
(* same expressions exactly, over the rationals.  A rational is a pair     *)
(* <<n, d>> in lowest terms with d > 0.  Coordinates and grid samples are   *)
(* integers drawn from small sets.                                         *)
(* A masked array is a record [data |-> ..., mask |-> ...] of equal shape. *)
(* A matrix is a sequence of rows (first index: latitude / ny, second      *)
(* index: longitude / nx), 1-based.                                        *)
(***************************************************************************)
EXTENDS Integers, Sequences, FiniteSets, TLC

VARIABLES
    grid_file,     \* argument grid_file
    TYPE,          \* argument TYPE
    METHOD,        \* argument METHOD
    model_files,   \* argument model_files
    ilon,          \* argument ilon: the caller's array, passed by reference
    ilat,          \* argument ilat
    ilon0,         \* history: ilon as the caller supplied it
    pc,            \* position in extract_netcdf_constants
    opened,        \* history: the files opened so far, in order
    lon,           \* local lon (extended)
    lat,           \* local lat
    bathymetry,    \* local bathymetry (extended, masked)
    D,             \* local D
    ampl,          \* local ampl [npts][nc]
    phase,         \* local phase [npts][nc]
    constituents,  \* local constituents
    result,        \* the returned tuple, or the exception raised
    tide,          \* predict_tide_drift: its arguments, locals and result
    extcall        \* extend_array / extend_matrix called on their own

vars == << grid_file, TYPE, METHOD, model_files, ilon, ilat, ilon0, pc, opened,
           lon, lat, bathymetry, D, ampl, phase, constituents, result, tide, extcall >>

----------------------------------------------------------------------------
(* Exact arithmetic *)

Abs(a) == IF a < 0 THEN 0 - a ELSE a

Min(a, b) == IF a <= b THEN a ELSE b

Max(a, b) == IF a >= b THEN a ELSE b

RECURSIVE Gcd(_, _)
Gcd(a, b) == IF b = 0 THEN a ELSE Gcd(b, a % b)

\* the rational n/d (d # 0) in lowest terms with a positive denominator
Q(n, d) ==
    LET g == Gcd(Abs(n), Abs(d))
        s == IF d < 0 THEN 0 - 1 ELSE 1
    IN  << (s * n) \div g, (s * d) \div g >>

QInt(a) == << a, 1 >>

QAdd(p, q) == Q(p[1] * q[2] + q[1] * p[2], p[2] * q[2])

QMul(p, q) == Q(p[1] * q[1], p[2] * q[2])

QDiv(p, q) == Q(p[1] * q[2], p[2] * q[1])

QZero == QInt(0)

\* stand-in for IEEE nan, the default fill_value of RegularGridInterpolator
NaN == << 0, 0 >>

\* stand-in for the default fill_value of a numpy masked array (1e20)
FillValue == << 1, 0 >>

\* complex numbers are pairs << real, imag >> of rationals
ComplexFill == << FillValue, QZero >>

----------------------------------------------------------------------------
(* Matrices *)

Transpose(M) ==
    [j \in 1..Len(M[1]) |-> [i \in 1..Len(M) |-> M[i][j]]]

Shape(M) == << Len(M), IF Len(M) = 0 THEN 0 ELSE Len(M[1]) >>

\* np.zeros((ny, nx), dtype=bool)
NoMask(ny, nx) == [j \in 1..ny |-> [i \in 1..nx |-> FALSE]]

MapMatrix(M, f(_)) == [j \in 1..Len(M) |-> [i \in 1..Len(M[j]) |-> f(M[j][i])]]

RealPart(c) == c[1]

ImagPart(c) == c[2]

BoolAsInt(b) == IF b THEN 1 ELSE 0

----------------------------------------------------------------------------
(* extend_array, extend_matrix *)

\* extended array [x-1, x0, ..., xN, xN+1]
extend_array(input_array, step_size) ==
    << input_array[1] - step_size >> \o input_array
        \o << input_array[Len(input_array)] + step_size >>

\* variant: the edge columns are repeated instead of wrapped
ExtendRowEdge(row) == << row[1] >> \o row \o << row[Len(row)] >>

\* one row of the extended matrix: last column, the row, first column
ExtendRow(row) == << row[Len(row)] >> \o row \o << row[1] >>

\* variant: only the samples are copied, the mask is left all-False
extend_matrixUnmasked(input_matrix) ==
    [ data |-> [j \in 1..Len(input_matrix.data) |->
                    ExtendRow(input_matrix.data[j])],
      mask |-> [j \in 1..Len(input_matrix.mask) |->
                    [i \in 1..Len(input_matrix.mask[j]) + 2 |-> FALSE]] ]

\* a masked-array slice assignment copies data and mask alike
extend_matrix(input_matrix) ==
    [ data |-> [j \in 1..Len(input_matrix.data) |->
                    ExtendRow(input_matrix.data[j])],
      mask |-> [j \in 1..Len(input_matrix.mask) |->
                    ExtendRow(input_matrix.mask[j])] ]

----------------------------------------------------------------------------
(* Interpolation (scipy.interpolate), degree 1 *)

\* searchsorted(grid, x) - 1, clipped to a valid lower cell index (1-based)
FindIndex(grid, x) ==
    LET c == Cardinality({k \in 1..Len(grid) : grid[k] < x})
    IN  Max(1, Min(Len(grid) - 1, c))

Clamp(x, lo, hi) == Max(lo, Min(hi, x))

OutOfBounds(grid, x) == x < grid[1] \/ x > grid[Len(grid)]

\* the bilinear weighting of the four corners of a cell of size dx by dy,
\* at offset (wx, wy) from its lower corner
Weighted(f00, f01, f10, f11, wx, wy, dx, dy) ==
    Q(  f00 * (dx - wx) * (dy - wy) + f01 * wx * (dy - wy)
      + f10 * (dx - wx) * wy        + f11 * wx * wy,
      dx * dy)

BilinearCell(xs, ys, F, x, y, i, j) ==
    Weighted(F[j][i], F[j][i + 1], F[j + 1][i], F[j + 1][i + 1],
             x - xs[i], y - ys[j], xs[i + 1] - xs[i], ys[j + 1] - ys[j])

\* bilinear interpolation of the integer matrix F (rows: ys, columns: xs)
Bilinear(xs, ys, F, x, y) ==
    BilinearCell(xs, ys, F, x, y, FindIndex(xs, x), FindIndex(ys, y))

\* nearest grid node; a tie goes to the lower index (yi <= .5)
NearestOf(grid, x, i) ==
    IF 2 * (x - grid[i]) <= grid[i + 1] - grid[i] THEN i ELSE i + 1

NearestIndex(grid, x) == NearestOf(grid, x, FindIndex(grid, x))

Nearest(xs, ys, F, x, y) ==
    QInt(F[NearestIndex(ys, y)][NearestIndex(xs, x)])

\* RectBivariateSpline(lon, lat, F.T, kx=1, ky=1).ev(x, y): piecewise
\* bilinear; FITPACK evaluates a point outside the knots at the nearest edge
SplineEv(xs, ys, F, x, y) ==
    Bilinear(xs, ys, F, Clamp(x, xs[1], xs[Len(xs)]),
                        Clamp(y, ys[1], ys[Len(ys)]))

\* RegularGridInterpolator((lat, lon), F, method, bounds_error=False,
\*     fill_value=fill).__call__(np.c_[y, x])
RegularGrid(ys, xs, F, method, fill, y, x) ==
    IF OutOfBounds(ys, y) \/ OutOfBounds(xs, x) THEN fill
    ELSE IF method = "linear" THEN Bilinear(xs, ys, F, x, y)
    ELSE Nearest(xs, ys, F, x, y)

\* .astype(np.bool) of an interpolated 0/1 field: nonzero is True
AsBool(q) == q[1] # 0

\* variant: np.round (half to even) in place of np.ceil
RoundBool(q) == 2 * q[1] > q[2]

\* np.ceil(...).astype(np.bool) of an interpolated 0/1 field
CeilBool(q) == q[1] > 0

----------------------------------------------------------------------------
(* The atlas on disk.  netCDF variables are stored [nx][ny]; the readers    *)
(* transpose them.                                                         *)

\* most query points in one call
MaxPts == 2

\* most constituent files in one call
MaxFiles == 2

GridNames == { "grid_ocean", "grid_island", "grid_coast" }

\* bathymetry at the z-nodes (hz, stored [nx][ny]); 0 is land
Bathymetry(name) ==
    IF name = "grid_ocean" THEN << <<2, 4>>, <<6, 8>> >>
    ELSE IF name = "grid_island" THEN << <<0, 4>>, <<6, 8>> >>
    ELSE << <<2, 4>>, <<0, 0>> >>

SwapPair(s) == << s[2], s[1] >>

\* the grid file: z-, u- and v-nodes have their own coordinates and depths
GridFile(name) ==
    LET hz == Bathymetry(name)
    IN
    [ nx |-> 2, ny |-> 2,
      lon_z |-> << 0, 180 >>,  lat_z |-> << 0, 2 >>,  hz |-> hz,
      lon_u |-> << 90, 270 >>, lat_u |-> << 0, 2 >>,  hu |-> SwapPair(hz),
      lon_v |-> << 0, 180 >>,  lat_v |-> << -1, 1 >>,
      hv |-> << SwapPair(hz[1]), SwapPair(hz[2]) >> ]

\* constituent files; con is the padded identifier as stored
ConstituentFile(name) ==
    IF name = "m2"
    THEN [ con |-> << "m", "2", " ", " " >>, nx |-> 2, ny |-> 2,
           hRe |-> << <<1, 2>>, <<3, 0>> >>,  hIm |-> << <<0, 1>>, <<-1, 2>> >>,
           uRe |-> << <<2, 0>>, <<1, 1>> >>,  uIm |-> << <<1, 1>>, <<0, -2>> >>,
           vRe |-> << <<0, 3>>, <<1, 2>> >>,  vIm |-> << <<2, 0>>, <<-1, 1>> >> ]
    ELSE [ con |-> << "s", "2", " ", " " >>, nx |-> 2, ny |-> 2,
           hRe |-> << <<0, 1>>, <<2, 2>> >>,  hIm |-> << <<3, 0>>, <<1, -1>> >>,
           uRe |-> << <<1, 2>>, <<0, 3>> >>,  uIm |-> << <<0, 2>>, <<1, 0>> >>,
           vRe |-> << <<2, 1>>, <<0, 1>> >>,  vIm |-> << <<1, 3>>, <<0, 2>> >> ]

FileNames == { "m2", "s2" }

\* the data directory
Disk(name) ==
    IF name \in GridNames THEN GridFile(name) ELSE ConstituentFile(name)

\* variant: the last branch of lines 117-134 written as a plain else
TypesElse == { "z", "u", "U", "v", "V", "w" }

\* the variable types lines 117-134 have a branch for
Types == { "z", "u", "U", "v", "V" }

Methods == { "spline", "linear", "nearest" }

\* query points << longitude, latitude >> (degrees)
QueryPoints ==
    { << -450, 1 >>, << -90, 1 >>, << 90, 1 >>, << 270, 1 >>, << 450, 1 >>,
      << 90, 4 >> }

SeqsUpTo(S, n) == UNION { [1..m -> S] : m \in 0..n }

----------------------------------------------------------------------------
(* str.strip() on a sequence of characters *)

RECURSIVE LStrip(_)
LStrip(s) == IF s # << >> /\ Head(s) = " " THEN LStrip(Tail(s)) ELSE s

RECURSIVE RStrip(_)
RStrip(s) ==
    IF s # << >> /\ s[Len(s)] = " " THEN RStrip(SubSeq(s, 1, Len(s) - 1)) ELSE s

Strip(s) == RStrip(LStrip(s))

----------------------------------------------------------------------------
(* read_elevation_file, read_transport_file *)

\* the complex field built from a real and an imaginary netCDF variable
ComplexField(re, im, ny, nx) ==
    [ data |-> [j \in 1..ny |-> [i \in 1..nx |->
                    << Transpose(re)[j][i], Transpose(im)[j][i] >>]],
      mask |-> NoMask(ny, nx) ]

read_elevation_file(f) ==
    [ h |-> ComplexField(f.hRe, f.hIm, f.ny, f.nx), con |-> Strip(f.con) ]

read_transport_file(f, type) ==
    [ h |-> IF type \in { "U", "u" }
            THEN ComplexField(f.uRe, f.uIm, f.ny, f.nx)
            ELSE ComplexField(f.vRe, f.vIm, f.ny, f.nx),
      con |-> Strip(f.con) ]

----------------------------------------------------------------------------
(* extract_netcdf_constants: the pieces of the computation *)

\* the node variables read for a variable type (lines 117-134)
NodeOf(type) ==
    IF type = "z" THEN "z" ELSE IF type \in { "U", "u" } THEN "u" ELSE "v"

GridLon(g, type) ==
    IF NodeOf(type) = "z" THEN g.lon_z
    ELSE IF NodeOf(type) = "u" THEN g.lon_u ELSE g.lon_v

GridLat(g, type) ==
    IF NodeOf(type) = "z" THEN g.lat_z
    ELSE IF NodeOf(type) = "u" THEN g.lat_u ELSE g.lat_v

GridDepth(g, type) ==
    IF NodeOf(type) = "z" THEN g.hz
    ELSE IF NodeOf(type) = "u" THEN g.hu ELSE g.hv

IsZero(v) == v = 0

\* bathymetry = extend_matrix(bathymetry); bathymetry.mask = (data == 0)
ExtendedBathymetry(g, type) ==
    LET raw == [ data |-> Transpose(GridDepth(g, type)),
                 mask |-> NoMask(g.ny, g.nx) ]
        ext == extend_matrix(raw)
    IN  [ data |-> ext.data, mask |-> MapMatrix(ext.data, IsZero) ]

\* variant: the shift is left out
AdjustLongitudeKept(x) == x

\* lt0, = np.nonzero(ilon < 0); ilon[lt0] += 360.0
AdjustLongitude(x) == IF x < 0 THEN x + 360 ELSE x

MaskAsInt(mask) == MapMatrix(mask, BoolAsInt)

\* variant: out-of-bounds mask samples filled as valid
MaskFillZero == QInt(0)

\* fill_value=1 of the mask interpolators (lines 173, 223, 260)
MaskFill == QInt(1)

\* bathymetry and its mask at one query point (lines 160-175)
InterpDepth(xs, ys, b, method, x, y) ==
    IF method = "spline"
    THEN [ data |-> SplineEv(xs, ys, b.data, x, y),
           mask |-> AsBool(SplineEv(xs, ys, MaskAsInt(b.mask), x, y)) ]
    ELSE [ data |-> RegularGrid(ys, xs, b.data, method, NaN, y, x),
           mask |-> CeilBool(RegularGrid(ys, xs, MaskAsInt(b.mask), method,
                                         MaskFill, y, x)) ]

\* a complex constituent field and its mask at one query point
\* (lines 205-228 and 242-265)
MaskedSample(d, m) == [ data |-> IF m THEN ComplexFill ELSE d, mask |-> m ]

\* z1.mask |= (z1.data == z1.fill_value)
MaskedOrFill(d, m) == MaskedSample(d, m \/ d = ComplexFill)

InterpComplex(xs, ys, z, method, x, y) ==
    IF method = "spline"
    THEN MaskedSample(
             << SplineEv(xs, ys, MapMatrix(z.data, RealPart), x, y),
                SplineEv(xs, ys, MapMatrix(z.data, ImagPart), x, y) >>,
             AsBool(SplineEv(xs, ys, MaskAsInt(z.mask), x, y)))
    ELSE MaskedOrFill(
             IF OutOfBounds(ys, y) \/ OutOfBounds(xs, x) THEN ComplexFill
             ELSE << RegularGrid(ys, xs, MapMatrix(z.data, RealPart), method,
                                 FillValue, y, x),
                     RegularGrid(ys, xs, MapMatrix(z.data, ImagPart), method,
                                 FillValue, y, x) >>,
             CeilBool(RegularGrid(ys, xs, MaskAsInt(z.mask), method,
                                  MaskFill, y, x)))

\* unit_conv (lines 177-182) at one point: D.data/100 for velocities
UnitConv(type, depth) ==
    IF type \in { "v", "u" }
    THEN IF depth = NaN THEN NaN ELSE QDiv(depth, QInt(100))
    ELSE QInt(1)

\* tr1 = tr1/unit_conv: a masked division also masks a zero divisor and a
\* result that is not finite
DivideMasked(c, uc) ==
    LET m == c.mask \/ uc = NaN \/ uc = QZero
    IN  [ data |-> IF m THEN ComplexFill
                   ELSE << QDiv(c.data[1], uc), QDiv(c.data[2], uc) >>,
          mask |-> m ]

\* np.abs of a complex sample, kept exact as the squared modulus
AbsSquared(c) ==
    IF c = ComplexFill THEN FillValue
    ELSE QAdd(QMul(c[1], c[1]), QMul(c[2], c[2]))

\* np.arctan2(-imag, real), then degrees in [0, 360): the angle is kept
\* exact as the primitive integer direction << X, Y >> that it points to
Arctan2Degrees(c) ==
    IF c = ComplexFill \/ (c[1][1] = 0 /\ c[2][1] = 0) THEN << 1, 0 >>
    ELSE LET X == c[1][1] * c[2][2]
             Y == 0 - c[2][1] * c[1][2]
             g == Gcd(Abs(X), Abs(Y))
         IN  << X \div g, Y \div g >>

\* A[:, i] = col for a masked array A of shape [npts][nc]
SetColumn(A, i, col) ==
    [ data |-> [p \in 1..Len(A.data) |->
                   [A.data[p] EXCEPT ![i] = col[p].data]],
      mask |-> [p \in 1..Len(A.mask) |->
                   [A.mask[p] EXCEPT ![i] = col[p].mask]] ]

\* np.ma.zeros((npts, nc)) with an all-False mask
MaskedZeros(npts, nc, zero) ==
    [ data |-> [p \in 1..npts |-> [i \in 1..nc |-> zero]],
      mask |-> NoMask(npts, nc) ]

\* SCALE keyword default
SCALE == 1

----------------------------------------------------------------------------
(* extract_netcdf_constants as a state machine *)

None == << >>

NoArray == [ data |-> << >>, mask |-> << >> ]

AllTypes == Types \cup { "w" }

Idle == [ pc |-> "idle" ]

InitExtract ==
    /\ grid_file \in GridNames
    /\ TYPE \in AllTypes
    /\ METHOD \in Methods
    /\ model_files \in SeqsUpTo(FileNames, MaxFiles)
    /\ \E pts \in SeqsUpTo(QueryPoints, MaxPts) \ { << >> } :
          /\ ilon = [p \in 1..Len(pts) |-> pts[p][1]]
          /\ ilat = [p \in 1..Len(pts) |-> pts[p][2]]
    /\ ilon0 = ilon
    /\ pc = "call"
    /\ opened = << >>
    /\ lon = None /\ lat = None
    /\ bathymetry = NoArray /\ D = NoArray /\ ampl = NoArray /\ phase = NoArray
    /\ constituents = << >>
    /\ result = None

Init == InitExtract /\ tide = Idle /\ extcall = Idle

\* lines 102-148: open and read the grid file, extend the longitude axis
\* and the bathymetry, build the mask
ReadGrid ==
    /\ pc = "call"
    /\ TYPE \in Types
    /\ opened' = Append(opened, grid_file)
    /\ lon' = LET l == GridLon(Disk(grid_file), TYPE)
              IN  extend_array(l, l[2] - l[1])
    /\ lat' = GridLat(Disk(grid_file), TYPE)
    /\ bathymetry' = ExtendedBathymetry(Disk(grid_file), TYPE)
    /\ pc' = "adjust"
    /\ UNCHANGED << grid_file, TYPE, METHOD, model_files, ilon, ilat, ilon0, D,
                    ampl, phase, constituents, result, tide, extcall >>

\* lines 102-140 for a TYPE none of the branches takes: the grid file is
\* opened, read and closed, and lon[1] - lon[0] finds lon unbound
ReadGridUnbound ==
    /\ pc = "call"
    /\ TYPE \notin Types
    /\ opened' = Append(opened, grid_file)
    /\ pc' = "raised"
    /\ result' = [ raised |-> "UnboundLocalError", name |-> "lon" ]
    /\ UNCHANGED << grid_file, TYPE, METHOD, model_files, ilon, ilat, ilon0, lon,
                    lat, bathymetry, D, ampl, phase, constituents, tide, extcall >>

\* lines 150-155: shift negative query longitudes, in place
Adjust ==
    /\ pc = "adjust"
    /\ ilon' = [p \in 1..Len(ilon) |-> AdjustLongitude(ilon[p])]
    /\ pc' = "bathymetry"
    /\ UNCHANGED << grid_file, TYPE, METHOD, model_files, ilat, ilon0, opened, lon,
                    lat, bathymetry, D, ampl, phase, constituents, result,
                    tide, extcall >>

\* lines 157-192: interpolate bathymetry and mask, allocate ampl and phase
InterpBathymetry ==
    /\ pc = "bathymetry"
    /\ LET pts == [p \in 1..Len(ilon) |->
                     InterpDepth(lon, lat, bathymetry, METHOD, ilon[p], ilat[p])]
       IN  D' = [ data |-> [p \in 1..Len(ilon) |-> pts[p].data],
                  mask |-> [p \in 1..Len(ilon) |-> pts[p].mask] ]
    /\ ampl' = MaskedZeros(Len(ilon), Len(model_files), QZero)
    /\ phase' = MaskedZeros(Len(ilon), Len(model_files), << 1, 0 >>)
    /\ pc' = "constituents"
    /\ UNCHANGED << grid_file, TYPE, METHOD, model_files, ilon, ilat, ilon0,
                    opened, lon, lat, bathymetry, constituents, result, tide, extcall >>

\* the interpolated, unit-converted constituent at every query point
ConstituentColumn(type, method, xs, ys, z, depth, qlon, qlat) ==
    [p \in 1..Len(qlon) |->
        IF type = "z"
        THEN InterpComplex(xs, ys, z, method, qlon[p], qlat[p])
        ELSE DivideMasked(InterpComplex(xs, ys, z, method, qlon[p], qlat[p]),
                          UnitConv(type, depth.data[p]))]

\* np.abs(z1), entry by entry
AbsColumn(col) ==
    [p \in 1..Len(col) |->
        [ data |-> AbsSquared(col[p].data), mask |-> col[p].mask ]]

\* np.arctan2(-np.imag(z1), np.real(z1)), entry by entry
PhaseColumn(col) ==
    [p \in 1..Len(col) |->
        [ data |-> Arctan2Degrees(col[p].data), mask |-> col[p].mask ]]

\* line 253 reads z1, which the transport branch never binds
TransportSplineUnbound(type, method) == type # "z" /\ method = "spline"

\* lines 194-270, one iteration of the loop over model_files
ReadConstituent ==
    /\ pc = "constituents"
    /\ Len(constituents) < Len(model_files)
    /\ ~TransportSplineUnbound(TYPE, METHOD)
    /\ \E i \in { Len(constituents) + 1 } :
       \E rd \in { IF TYPE = "z" THEN read_elevation_file(Disk(model_files[i]))
                   ELSE read_transport_file(Disk(model_files[i]), TYPE) } :
       \E z \in { extend_matrix(rd.h) } :
       \E col \in { ConstituentColumn(TYPE, METHOD, lon, lat, z, D,
                                      ilon, ilat) } :
           /\ opened' = Append(opened, model_files[i])
           /\ constituents' = Append(constituents, rd.con)
           /\ ampl' = SetColumn(ampl, i, AbsColumn(col))
           /\ phase' = SetColumn(phase, i, PhaseColumn(col))
    /\ UNCHANGED << grid_file, TYPE, METHOD, model_files, ilon, ilat, ilon0, pc,
                    lon, lat, bathymetry, D, result, tide, extcall >>

\* lines 232-253 with METHOD spline: the file is read, then z1 is unbound
ReadConstituentUnbound ==
    /\ pc = "constituents"
    /\ Len(constituents) < Len(model_files)
    /\ TransportSplineUnbound(TYPE, METHOD)
    /\ LET i  == Len(constituents) + 1
           rd == read_transport_file(Disk(model_files[i]), TYPE)
       IN  /\ opened' = Append(opened, model_files[i])
           /\ constituents' = Append(constituents, rd.con)
    /\ pc' = "raised"
    /\ result' = [ raised |-> "UnboundLocalError", name |-> "z1" ]
    /\ UNCHANGED << grid_file, TYPE, METHOD, model_files, ilon, ilat, ilon0, lon,
                    lat, bathymetry, D, ampl, phase, tide, extcall >>

\* lines 272-278: scale the amplitude, return
Return ==
    /\ pc = "constituents"
    /\ Len(constituents) = Len(model_files)
    /\ result' = [ amplitude |->
                       [ data |-> [p \in 1..Len(ampl.data) |->
                                     [i \in 1..Len(ampl.data[p]) |->
                                        IF ampl.data[p][i] = FillValue
                                        THEN FillValue
                                        ELSE QMul(ampl.data[p][i],
                                                  QInt(SCALE * SCALE))]],
                         mask |-> ampl.mask ],
                   phase |-> phase,
                   D |-> D,
                   constituents |-> constituents ]
    /\ pc' = "returned"
    /\ UNCHANGED << grid_file, TYPE, METHOD, model_files, ilon, ilat, ilon0,
                    opened, lon, lat, bathymetry, D, ampl, phase,
                    constituents, tide, extcall >>

Next ==
    \/ ReadGrid
    \/ ReadGridUnbound
    \/ Adjust
    \/ InterpBathymetry
    \/ ReadConstituent
    \/ ReadConstituentUnbound
    \/ Return

Spec == Init /\ [][Next]_vars

----------------------------------------------------------------------------
(* predict_tide_drift.  Angles are exact multiples of a quarter turn: a     *)
(* quantity the code holds in radians is counted in quarter turns (pi/2),   *)
(* a quantity it holds in degrees (G) in degrees.                          *)

\* most times in one call
MaxTimes == 2

\* most constituents in one call
MaxCons == 2

SecondsPerDay == 86400

TideNames == { "m2", "k1" }

\* days relative to 1992-01-01
Times == { 0, 1 }

Corrections == { "OTIS", "ATLAS", "netcdf", "GOT" }

\* load_constituent(c): equilibrium phase ph (quarter turns) and angular
\* frequency omega (quarter turns per second)
load_constituent(c) ==
    IF c = "m2" THEN [ ph |-> 1, omega |-> Q(3, 86400) ]
    ELSE [ ph |-> 2, omega |-> Q(1, 86400) ]

\* load_nodal_corrections(t + 48622.0, constituents, ...) for one time and
\* one constituent: pu (quarter turns), pf, G (degrees)
load_nodal_corrections(t, c) ==
    IF c = "m2" THEN [ pu |-> t % 2, pf |-> 1 + t, G |-> 90 * (1 + t) ]
    ELSE [ pu |-> 1, pf |-> 2, G |-> 270 * t ]

\* the caller's harmonic constant at row ti for constituent c
HarmonicConstant(c, ti) ==
    IF c = "m2" THEN << ti, 2 >> ELSE << 0 - 1, ti + 1 >>

\* np.cos, np.sin of a whole number of quarter turns
Cos(th) == IF th[1] % 4 = 0 THEN 1 ELSE IF th[1] % 4 = 2 THEN 0 - 1 ELSE 0

Sin(th) == IF th[1] % 4 = 1 THEN 1 ELSE IF th[1] % 4 = 3 THEN 0 - 1 ELSE 0

\* G*np.pi/180.0: degrees to radians
DegreesToRadians(g) == Q(g, 90)

\* th (lines 73-79)
Theta(corrections, c, t, pu, G) ==
    IF corrections \in { "OTIS", "ATLAS", "netcdf" }
    THEN QAdd(QAdd(QMul(load_constituent(c).omega, QInt(t * SecondsPerDay)),
                   QInt(load_constituent(c).ph)),
              QInt(pu))
    ELSE QAdd(DegreesToRadians(G), QInt(pu))

\* variant: the sine component added instead of subtracted
TermPlus(pf, hc, th) == pf * hc[1] * Cos(th) + pf * hc[2] * Sin(th)

\* pf*hc.real*np.cos(th) - pf*hc.imag*np.sin(th) (line 81)
Term(pf, hc, th) == pf * hc[1] * Cos(th) - pf * hc[2] * Sin(th)

\* variant: the mask of the latest term replaces the accumulated mask
MaskLatest(a, b) == b

\* MaskedArray.__iadd__: self._mask += m
MaskOr(a, b) == a \/ b

\* ht += term, for column k; MaskedArray.__iadd__ ors the masks and adds 0
\* to an entry whose mask is set
Accumulate(ht, td, k) ==
    LET c == td.constituents[k]
    IN  [ data |-> [ti \in 1..Len(td.t) |->
              IF MaskOr(ht.mask[ti], td.hc.mask[ti][k]) THEN ht.data[ti]
              ELSE ht.data[ti]
                   + Term(td.pf[ti][k], td.hc.data[ti][k],
                          Theta(td.CORRECTIONS, c, td.t[ti], td.pu[ti][k],
                                td.G[ti][k]))],
          mask |-> [ti \in 1..Len(td.t) |->
              MaskOr(ht.mask[ti], td.hc.mask[ti][k])] ]

\* the extraction is not running
ExtractIdle ==
    /\ grid_file = "grid_ocean" /\ TYPE = "z" /\ METHOD = "spline"
    /\ model_files = << >> /\ ilon = << >> /\ ilat = << >> /\ ilon0 = << >>
    /\ pc = "idle" /\ opened = << >>
    /\ lon = None /\ lat = None
    /\ bathymetry = NoArray /\ D = NoArray /\ ampl = NoArray /\ phase = NoArray
    /\ constituents = << >> /\ result = None

extractVars ==
    << grid_file, TYPE, METHOD, model_files, ilon, ilat, ilon0, pc, opened,
       lon, lat, bathymetry, D, ampl, phase, constituents, result >>

InitTide ==
    /\ ExtractIdle
    /\ extcall = Idle
    /\ \E t \in SeqsUpTo(Times, MaxTimes) \ { << >> } :
       \E cons \in SeqsUpTo(TideNames, MaxCons) :
       \E mask \in [1..Len(t) -> [1..Len(cons) -> BOOLEAN]] :
       \E corr \in Corrections :
          tide = [ pc |-> "call", t |-> t, constituents |-> cons,
                   hc |-> [ data |-> [ti \in 1..Len(t) |->
                                        [k \in 1..Len(cons) |->
                                           HarmonicConstant(cons[k], ti)]],
                            mask |-> mask ],
                   CORRECTIONS |-> corr ]

\* lines 64-70: nodal corrections for every time and constituent, ht zeroed
TideLoad ==
    /\ tide.pc = "call"
    /\ tide' = [ pc |-> "loop", t |-> tide.t,
                 constituents |-> tide.constituents, hc |-> tide.hc,
                 CORRECTIONS |-> tide.CORRECTIONS,
                 pu |-> [ti \in 1..Len(tide.t) |->
                           [k \in 1..Len(tide.constituents) |->
                              load_nodal_corrections(tide.t[ti],
                                  tide.constituents[k]).pu]],
                 pf |-> [ti \in 1..Len(tide.t) |->
                           [k \in 1..Len(tide.constituents) |->
                              load_nodal_corrections(tide.t[ti],
                                  tide.constituents[k]).pf]],
                 G  |-> [ti \in 1..Len(tide.t) |->
                           [k \in 1..Len(tide.constituents) |->
                              load_nodal_corrections(tide.t[ti],
                                  tide.constituents[k]).G]],
                 ht |-> [ data |-> [ti \in 1..Len(tide.t) |-> 0],
                          mask |-> [ti \in 1..Len(tide.t) |-> FALSE] ],
                 k |-> 0 ]
    /\ UNCHANGED << extractVars, extcall >>

\* lines 72-81: one iteration of the loop over constituents
TideAccumulate ==
    /\ tide.pc = "loop"
    /\ tide.k < Len(tide.constituents)
    /\ tide' = [tide EXCEPT !.k = tide.k + 1,
                            !.ht = Accumulate(tide.ht, tide, tide.k + 1)]
    /\ UNCHANGED << extractVars, extcall >>

\* line 83
TideReturn ==
    /\ tide.pc = "loop"
    /\ tide.k = Len(tide.constituents)
    /\ tide' = [tide EXCEPT !.pc = "returned"]
    /\ UNCHANGED << extractVars, extcall >>

NextTide == TideLoad \/ TideAccumulate \/ TideReturn

SpecTide == InitTide /\ [][NextTide]_vars

----------------------------------------------------------------------------
(* extend_array and extend_matrix called on arbitrary inputs *)

\* most columns of the input field
MaxNx == 2

Rows == { 1, 2 }

Samples == { 0, 1 }

InitExtend ==
    /\ ExtractIdle
    /\ tide = Idle
    /\ \E ny \in Rows : \E nx \in 1..MaxNx :
       \E data \in [1..ny -> [1..nx -> Samples]] :
       \E mask \in [1..ny -> [1..nx -> BOOLEAN]] :
       \E x0 \in { 0, 90 } : \E step \in { 1, 180 } :
          extcall = [ pc |-> "call",
                      input_matrix |-> [ data |-> data, mask |-> mask ],
                      input_array |-> [i \in 1..nx |-> x0 + (i - 1) * step],
                      step_size |-> step ]

\* lon = extend_array(lon, dlon)
CallExtendArray ==
    /\ extcall.pc = "call"
    /\ extcall' = [ pc |-> "array",
                    input_matrix |-> extcall.input_matrix,
                    input_array |-> extcall.input_array,
                    step_size |-> extcall.step_size,
                    array |-> extend_array(extcall.input_array,
                                           extcall.step_size) ]
    /\ UNCHANGED << extractVars, tide >>

\* bathymetry = extend_matrix(bathymetry)
CallExtendMatrix ==
    /\ extcall.pc = "array"
    /\ extcall' = [ pc |-> "returned",
                    input_matrix |-> extcall.input_matrix,
                    input_array |-> extcall.input_array,
                    step_size |-> extcall.step_size,
                    array |-> extcall.array,
                    matrix |-> extend_matrix(extcall.input_matrix) ]
    /\ UNCHANGED << extractVars, tide >>

NextExtend == CallExtendArray \/ CallExtendMatrix

SpecExtend == InitExtend /\ [][NextExtend]_vars

----------------------------------------------------------------------------
(* Properties of extract_netcdf_constants *)

Supported == { "z", "u", "U", "v", "V" }

\* the query longitudes have been handed to an interpolant, or are about to
PassedToInterpolant == pc \in { "bathymetry", "constituents", "returned" }

Outside(grid, x) == x < grid[1] \/ x > grid[Len(grid)]

\* query point p, as adjusted, lies off the extended grid
QueryOutside(p) ==
    /\ lon # None
    /\ pc \in { "bathymetry", "constituents", "returned", "raised" }
    /\ Outside(lon, ilon[p]) \/ Outside(lat, ilat[p])

Between(lo, x, hi) == IF x < lo THEN lo ELSE IF x > hi THEN hi ELSE x

\* the grid nodes along one axis that carry weight at coordinate x
AxisSupport(grid, method, x) ==
    LET step == grid[2] - grid[1]
        xc   == Between(grid[1], x, grid[Len(grid)])
    IN  IF method = "spline"
        THEN { k \in 1..Len(grid) : Abs(xc - grid[k]) < step }
        ELSE IF Outside(grid, x) THEN { }
        ELSE IF method = "linear"
        THEN { k \in 1..Len(grid) : Abs(x - grid[k]) < step }
        ELSE { k \in 1..Len(grid) : \/ 2 * Abs(x - grid[k]) < step
                                    \/ 2 * (x - grid[k]) = step }

\* the grid cells << row, column >> that contribute to the value at point p
Support(p) ==
    AxisSupport(lat, METHOD, ilat[p]) \X AxisSupport(lon, METHOD, ilon[p])

TouchesLand(p) == \E c \in Support(p) : bathymetry.data[c[1]][c[2]] = 0

TouchesOcean(p) == \E c \in Support(p) : bathymetry.data[c[1]][c[2]] # 0

AllMasked(A, p) == \A i \in 1..Len(A.mask[p]) : A.mask[p][i]

\* C1: for every supported TYPE and every METHOD the call returns normally
\* with amplitude and phase of shape [npts, nc], bathymetry of shape [npts]
\* and the nc constituent identifiers in file order.
C1_ReturnsWithShapes ==
    TYPE \in Supported =>
        /\ pc # "raised"
        /\ pc = "returned" =>
            /\ Shape(result.amplitude.data) = << Len(ilon0), Len(model_files) >>
            /\ Shape(result.amplitude.mask) = << Len(ilon0), Len(model_files) >>
            /\ Shape(result.phase.data) = << Len(ilon0), Len(model_files) >>
            /\ Len(result.D.data) = Len(ilon0)
            /\ Len(result.constituents) = Len(model_files)
            /\ \A i \in 1..Len(model_files) :
                  result.constituents[i] = Strip(Disk(model_files[i]).con)

\* C2 as stated: whatever longitude the caller supplies, the longitude
\* handed to the interpolants lies in [0, 360).
C2_NormalizedAnyLongitude ==
    PassedToInterpolant =>
        \A p \in 1..Len(ilon) : 0 <= ilon[p] /\ ilon[p] < 360

\* C2 amended: the longitude handed to the interpolants is L + 360 for
\* L < 0 and L otherwise, so it lies in [0, 360) for -360 <= L < 360; and
\* nothing is interpolated before the adjustment.
C2_ShiftedNegativeLongitude ==
    /\ PassedToInterpolant =>
          \A p \in 1..Len(ilon) :
             /\ ilon0[p] < 0 => ilon[p] = ilon0[p] + 360
             /\ ilon0[p] >= 0 => ilon[p] = ilon0[p]
             /\ (0 - 360 <= ilon0[p] /\ ilon0[p] < 360) =>
                    (0 <= ilon[p] /\ ilon[p] < 360)
    /\ pc \in { "call", "adjust" } => D = NoArray /\ ampl = NoArray

C2_Witness ==
    /\ pc = "returned"
    /\ \E p \in 1..Len(ilon) : ilon0[p] = 0 - 90 /\ ilon[p] = 270

\* the outputs for query points p and q agree: the same validity, and the
\* same values where valid
SameResult(p, q) ==
    /\ result.D.mask[p] = result.D.mask[q]
    /\ ~result.D.mask[p] => result.D.data[p] = result.D.data[q]
    /\ \A i \in 1..Len(model_files) :
          /\ result.amplitude.mask[p][i] = result.amplitude.mask[q][i]
          /\ result.phase.mask[p][i] = result.phase.mask[q][i]
          /\ ~result.amplitude.mask[p][i] =>
                /\ result.amplitude.data[p][i] = result.amplitude.data[q][i]
                /\ result.phase.data[p][i] = result.phase.data[q][i]

\* query q is query p moved east by 360 degrees, at a latitude on the grid
Period(p, q) ==
    /\ ilon0[q] = ilon0[p] + 360
    /\ ilat[q] = ilat[p]
    /\ ~Outside(lat, ilat[p])

\* C3 as stated: on a global grid the results at longitude L and at L + 360
\* are identical, for every L and each method.
C3_PeriodicAnyLongitude ==
    pc = "returned" =>
        \A p, q \in 1..Len(ilon) : Period(p, q) => SameResult(p, q)

\* C3 amended: the results at L and L + 360 are identical when the two
\* longitudes, as adjusted, coincide or both lie on the extended longitude
\* axis [lon[0] - dlon, lon[-1] + dlon].
C3_PeriodicOnExtendedAxis ==
    pc = "returned" =>
        \A p, q \in 1..Len(ilon) :
            ( /\ Period(p, q)
              /\ \/ ilon[p] = ilon[q]
                 \/ ~Outside(lon, ilon[p]) /\ ~Outside(lon, ilon[q]) )
            => SameResult(p, q)

C3_Witness ==
    /\ pc = "returned"
    /\ Len(model_files) > 0
    /\ \E p, q \in 1..Len(ilon) :
          /\ Period(p, q)
          /\ ilon[q] = ilon[p] + 360
          /\ ~Outside(lon, ilon[p]) /\ ~Outside(lon, ilon[q])
          /\ ~result.D.mask[p]
          /\ ~result.amplitude.mask[p][1]

\* C4 as stated: for every method a query point off the extended grid does
\* not make the call raise, and its bathymetry, amplitude and phase are
\* masked.
C4_OutsideMaskedAnyMethod ==
    TYPE \in Supported =>
        \A p \in 1..Len(ilon) :
            QueryOutside(p) =>
                /\ pc # "raised"
                /\ D # NoArray => D.mask[p]
                /\ pc = "returned" =>
                      /\ result.D.mask[p]
                      /\ AllMasked(result.amplitude, p)
                      /\ AllMasked(result.phase, p)

\* C4 amended: for the methods linear and nearest a query point off the
\* extended grid does not make the call raise, and its bathymetry,
\* amplitude and phase are masked.
C4_OutsideMaskedRegularGrid ==
    (TYPE \in Supported /\ METHOD \in { "linear", "nearest" }) =>
        \A p \in 1..Len(ilon) :
            QueryOutside(p) =>
                /\ pc # "raised"
                /\ D # NoArray => D.mask[p]
                /\ pc = "returned" =>
                      /\ result.D.mask[p]
                      /\ AllMasked(result.amplitude, p)
                      /\ AllMasked(result.phase, p)

C4_Witness ==
    /\ pc = "returned"
    /\ METHOD = "linear"
    /\ Len(model_files) > 0
    /\ \E p \in 1..Len(ilon) :
          /\ Outside(lon, ilon[p])
          /\ result.D.mask[p]
          /\ result.amplitude.mask[p][1]

\* C5: if the interpolation at a query point touches a land cell
\* (bathymetry 0), the amplitude and phase returned for that point are
\* masked for every constituent, for each method.
C5_LandMasksConstituents ==
    pc = "returned" =>
        \A p \in 1..Len(ilon) :
            TouchesLand(p) =>
                AllMasked(result.amplitude, p) /\ AllMasked(result.phase, p)

\* C6: if a grid cell that contributes to the interpolated value at a query
\* point has bathymetry 0, the bathymetry D returned for that point is
\* masked, for each method.
C6_LandMasksDepth ==
    D # NoArray =>
        \A p \in 1..Len(ilon) : TouchesLand(p) => D.mask[p]

C6_Witness ==
    /\ pc = "returned"
    /\ METHOD = "linear"
    /\ \E p \in 1..Len(ilon) :
          TouchesLand(p) /\ TouchesOcean(p) /\ result.D.mask[p]

\* C7 as stated: with an unsupported TYPE the call fails, and no file has
\* been opened before the error.
C7_RejectedBeforeIO ==
    TYPE \notin Supported =>
        /\ pc \in { "call", "raised" }
        /\ opened = << >>

\* C7 amended: with an unsupported TYPE the call fails once the grid file
\* has been opened and read and before anything else: lon is unbound at
\* line 140; no constituent file is opened and nothing is interpolated.
C7_RejectedAfterGridRead ==
    TYPE \notin Supported =>
        /\ pc \in { "call", "raised" }
        /\ pc = "call" => opened = << >>
        /\ pc = "raised" =>
              /\ opened = << grid_file >>
              /\ result = [ raised |-> "UnboundLocalError", name |-> "lon" ]
              /\ D = NoArray /\ constituents = << >>

C7_Witness == TYPE = "w" /\ pc = "raised" /\ opened = << grid_file >>

----------------------------------------------------------------------------
(* Properties of predict_tide_drift *)

\* the angle of constituent k at row ti, in whole quarter turns, written
\* from the two conventions
TideAngle(ti, k) ==
    IF tide.CORRECTIONS = "GOT"
    THEN (tide.G[ti][k] \div 90) + tide.pu[ti][k]
    ELSE ((load_constituent(tide.constituents[k]).omega[1]
              * tide.t[ti] * 86400)
             \div load_constituent(tide.constituents[k]).omega[2])
         + load_constituent(tide.constituents[k]).ph
         + tide.pu[ti][k]

CosQuarter(n) == << 1, 0, 0 - 1, 0 >>[(n % 4) + 1]

SinQuarter(n) == << 0, 1, 0, 0 - 1 >>[(n % 4) + 1]

Contribution(ti, k) ==
    tide.pf[ti][k]
      * (tide.hc.data[ti][k][1] * CosQuarter(TideAngle(ti, k))
         - tide.hc.data[ti][k][2] * SinQuarter(TideAngle(ti, k)))

\* the constituents summed from the last listed to the first
RECURSIVE SumFrom(_, _)
SumFrom(ti, k) ==
    IF k > Len(tide.constituents) THEN 0
    ELSE SumFrom(ti, k + 1) + Contribution(ti, k)

\* C8: at every valid time index the returned series is the sum over all
\* constituents k of pf*(Re(hc)*cos(th) - Im(hc)*sin(th)), with
\* th = omega*t*86400 + ph + pu for OTIS, ATLAS and netcdf and
\* th = G*pi/180 + pu for GOT; each constituent is counted once and the
\* listing order does not matter (the sum is taken in the reverse order).
C8_SumOfConstituents ==
    tide.pc = "returned" =>
        /\ Len(tide.ht.data) = Len(tide.t)
        /\ \A ti \in 1..Len(tide.t) :
              ~tide.ht.mask[ti] => tide.ht.data[ti] = SumFrom(ti, 1)

C8_Witness ==
    /\ tide.pc = "returned"
    /\ Len(tide.constituents) = 2
    /\ tide.constituents[1] # tide.constituents[2]
    /\ tide.CORRECTIONS = "OTIS"
    /\ \E ti \in 1..Len(tide.t) :
          /\ tide.t[ti] = 1
          /\ ~tide.ht.mask[ti]
          /\ Contribution(ti, 1) # 0
          /\ Contribution(ti, 2) # 0
          /\ tide.ht.data[ti] = Contribution(ti, 1) + Contribution(ti, 2)

\* C9: after k constituents have been accumulated, the entry of the series
\* at an index is masked exactly when the harmonic constant of one of those
\* k constituents is masked at that index; so a masked entry stays masked,
\* an entry with no masked constituent stays valid, and on return the entry
\* is masked iff some constituent is masked there.
C9_MaskIsUnionOfConstituentMasks ==
    tide.pc \in { "loop", "returned" } =>
        \A ti \in 1..Len(tide.t) :
            tide.ht.mask[ti] <=> \E j \in 1..tide.k : tide.hc.mask[ti][j]

C9_Witness ==
    /\ tide.pc = "returned"
    /\ Len(tide.constituents) = 2
    /\ Len(tide.t) = 2
    /\ tide.hc.mask[1][1] /\ ~tide.hc.mask[1][2] /\ tide.ht.mask[1]
    /\ ~tide.hc.mask[2][1] /\ ~tide.hc.mask[2][2] /\ ~tide.ht.mask[2]

----------------------------------------------------------------------------
(* Properties of extend_array and extend_matrix *)

\* C10: extend_matrix returns ny rows of nx+2 columns; column 0 is the
\* original last column, the last column is the original first column,
\* columns 1..nx are the original columns in order, data and mask alike;
\* extend_array returns n+2 coordinates, input[0]-step first, input[n-1]+step
\* last, the input unchanged between; the extended axis has as many entries
\* as the extended field has columns.
C10_ExtendWrapsColumns ==
    extcall.pc = "returned" =>
        LET nx == Len(extcall.input_array)
            ny == Len(extcall.input_matrix.data)
            inp == extcall.input_matrix
            out == extcall.matrix
        IN  /\ Len(out.data) = ny /\ Len(out.mask) = ny
            /\ \A j \in 1..ny :
                  /\ Len(out.data[j]) = nx + 2 /\ Len(out.mask[j]) = nx + 2
                  /\ out.data[j][1] = inp.data[j][nx]
                  /\ out.mask[j][1] = inp.mask[j][nx]
                  /\ out.data[j][nx + 2] = inp.data[j][1]
                  /\ out.mask[j][nx + 2] = inp.mask[j][1]
                  /\ \A i \in 1..nx :
                        /\ out.data[j][i + 1] = inp.data[j][i]
                        /\ out.mask[j][i + 1] = inp.mask[j][i]
                  /\ Len(extcall.array) = Len(out.data[j])
            /\ Len(extcall.array) = nx + 2
            /\ extcall.array[1] = extcall.input_array[1] - extcall.step_size
            /\ extcall.array[nx + 2]
                  = extcall.input_array[nx] + extcall.step_size
            /\ \A i \in 1..nx : extcall.array[i + 1] = extcall.input_array[i]

C10_Witness ==
    /\ extcall.pc = "returned"
    /\ Len(extcall.input_array) = 2
    /\ Len(extcall.input_matrix.data) = 2
    /\ extcall.input_matrix.data[1] = << 0, 1 >>
    /\ extcall.input_matrix.mask[1] = << FALSE, TRUE >>
    /\ extcall.matrix.data[1] = << 1, 0, 1, 0 >>
    /\ extcall.matrix.mask[1] = << TRUE, FALSE, TRUE, FALSE >>
    /\ extcall.input_array = << 0, 180 >>
    /\ extcall.array = << 0 - 180, 0, 180, 360 >>

----------------------------------------------------------------------------
(* Frame of extract_netcdf_constants *)

\* C11: the calls are pure; once extract_netcdf_constants has returned, the
\* query longitudes the caller passed in hold exactly the values they held
\* before the call.
C11_QueryLongitudesUnchanged ==
    pc = "returned" => ilon = ilon0

====
